---- MODULE Spec2Model ----
(***************************************************************************)
(* A model of tasm.py, the assembler for toy-machine.                      *)
(*                                                                         *)
(* Strings are sequences of one-character strings.  Python integers are    *)
(* unbounded, and constants of 32 and 33 bits matter here, so the value of *)
(* int(data) is kept as a decimal numeral (a digit sequence without        *)
(* leading zeros) and bin() is computed on numerals by repeated halving.   *)
(***************************************************************************)
EXTENDS Integers, Sequences, FiniteSets, TLC

WORD_SIZE == 32
MEM_ADDR_BITS == 10

(* ---------------- bounds of the explored inputs ---------------- *)
\* longest source file (in lines) of the driver specification
MaxLines == 3
\* largest operand count on a line of the encoder specification
MaxArgs == 3
\* widest constant (in bits) generated for the encoder specification
MaxConstBits == 33

(* ---------------- characters and strings ---------------- *)
DecDigits == <<"0", "1", "2", "3", "4", "5", "6", "7", "8", "9">>
HexLower == <<"0", "1", "2", "3", "4", "5", "6", "7", "8", "9",
              "a", "b", "c", "d", "e", "f">>
HexUpper == <<"0", "1", "2", "3", "4", "5", "6", "7", "8", "9",
              "A", "B", "C", "D", "E", "F">>

Range(s) == {s[k] : k \in 1..Len(s)}

IsDecDigit(ch) == ch \in Range(DecDigits)
IsHexDigit(ch) == ch \in Range(HexLower) \cup Range(HexUpper)

DecVal(ch) == CHOOSE d \in 0..9 : DecDigits[d + 1] = ch
HexVal(ch) == CHOOSE d \in 0..15 : HexLower[d + 1] = ch \/ HexUpper[d + 1] = ch

\* str.upper() on the letters that occur in the explored sources
LowerLetters == <<"a", "b", "c", "d", "e", "f", "i", "m", "o", "p", "r", "v", "x", "y", "z">>
UpperLetters == <<"A", "B", "C", "D", "E", "F", "I", "M", "O", "P", "R", "V", "X", "Y", "Z">>
UpperChar(ch) ==
    IF ch \in Range(LowerLetters)
    THEN UpperLetters[CHOOSE k \in 1..Len(LowerLetters) : LowerLetters[k] = ch]
    ELSE ch
upper(s) == [k \in 1..Len(s) |-> UpperChar(s[k])]

\* str.isnumeric(): non-empty and every character numeric
isnumeric(s) == Len(s) > 0 /\ \A k \in 1..Len(s) : IsDecDigit(s[k])

\* "x" in s
contains_x(s) == \E k \in 1..Len(s) : s[k] = "x"

\* Python slices s[:-n] and s[-n:] for n > 0, and "0" * n
SliceButLast(s, n) == SubSeq(s, 1, IF Len(s) - n > 0 THEN Len(s) - n ELSE 0)
SliceLast(s, n) == SubSeq(s, (IF Len(s) - n > 0 THEN Len(s) - n ELSE 0) + 1, Len(s))
Zeros(n) == [k \in 1..(IF n > 0 THEN n ELSE 0) |-> "0"]

(* ---------------- unbounded integers as decimal numerals ---------------- *)
RECURSIVE StripZeros(_)
StripZeros(ds) ==
    IF Len(ds) > 1 /\ ds[1] = "0" THEN StripZeros(Tail(ds)) ELSE ds

\* int(data) for a string of decimal digits
int_dec(data) == StripZeros(data)

\* long division of a numeral by two: the quotient's digits
RECURSIVE HalveDigits(_, _)
HalveDigits(ds, carry) ==
    IF ds = <<>> THEN <<>>
    ELSE LET cur == carry * 10 + DecVal(ds[1])
         IN <<DecDigits[(cur \div 2) + 1]>> \o HalveDigits(Tail(ds), cur % 2)
Halve(n) == StripZeros(HalveDigits(n, 0))
Parity(n) == DecVal(n[Len(n)]) % 2

\* bin(n)[2:] of a non-negative numeral
RECURSIVE BinDigits(_)
BinDigits(n) ==
    IF n = <<"0">> THEN <<>>
    ELSE BinDigits(Halve(n)) \o <<DecDigits[Parity(n) + 1]>>
bin(n) == IF n = <<"0">> THEN <<"0">> ELSE BinDigits(n)

\* bin(v)[2:] of a small non-negative integer
RECURSIVE BinOfNat(_)
BinOfNat(v) ==
    IF v < 2 THEN <<DecDigits[v + 1]>>
    ELSE BinOfNat(v \div 2) \o <<DecDigits[(v % 2) + 1]>>

\* format(v, "0Wb"): sign, then zero fill up to the total width W
format_b(v, width) ==
    IF v >= 0
    THEN LET b == BinOfNat(v) IN Zeros(width - Len(b)) \o b
    ELSE LET b == BinOfNat(0 - v) IN <<"-">> \o Zeros(width - 1 - Len(b)) \o b

(* ---------------- results of a call ---------------- *)
NoMsg == [kind |-> "", n |-> 0, tense |-> ""]
Return(code) == [t |-> "ret", code |-> code, exc |-> "", msg |-> NoMsg]
Raise(exc, msg) == [t |-> "raise", code |-> <<>>, exc |-> exc, msg |-> msg]
SyntaxErr(kind, n, tns) == Raise("SyntaxError", [kind |-> kind, n |-> n, tense |-> tns])
ValueErr == Raise("ValueError", NoMsg)

(* ---------------- tables ---------------- *)
\* register names, in the order of their codes 0..4
RegisterNames == << <<"A", "C">>, <<"D", "R">>, <<"C", "R">>, <<"P", "C">>, <<"I", "R">> >>
register_reference == [name \in Range(RegisterNames) |->
                          (CHOOSE k \in 1..Len(RegisterNames) : RegisterNames[k] = name) - 1]

add_reg_const == <<"0", "b", "0", "0", "0", "1", "0", "1">>
\* a faulty table entry: add reg/mem given the opcode of add mem/reg
add_reg_mem_Swapped == <<"0", "b", "0", "0", "0", "1", "1", "1">>
add_reg_mem == <<"0", "b", "0", "0", "0", "1", "1", "0">>
add_mem_reg == <<"0", "b", "0", "0", "0", "1", "1", "1">>
move_reg_const == <<"0", "b", "0", "0", "0", "0", "0", "0">>
move_reg_mem == <<"0", "b", "0", "0", "0", "0", "0", "1">>
move_mem_const == <<"0", "b", "0", "0", "0", "0", "1", "0">>
move_mem_mem == <<"0", "b", "0", "0", "0", "0", "1", "1">>
move_mem_reg == <<"0", "b", "0", "0", "0", "1", "0", "0">>
\* the reserved opcode of the first word of a two-word instruction
multiline_opcode == <<"0", "b", "1", "1", "1", "1", "1", "1">>

\* a faulty tense: zero operands are taken for the singular
tense_PluralOnly(num) == IF num > 1 THEN "were" ELSE "was"
tense(num) == IF num > 1 \/ num <= 0 THEN "were" ELSE "was"

(* ---------------- field encoders ---------------- *)
\* a faulty fmt_const: a constant of exactly WORD_SIZE bits is refused
fmt_const_Strict(data) ==
    LET c == bin(int_dec(data))
        l == Len(c)
    IN IF l >= WORD_SIZE
       THEN SyntaxErr("const_too_wide", l, "")
       ELSE Return(c)

fmt_const(data) ==
    LET c == bin(int_dec(data))
        l == Len(c)
    IN IF l > WORD_SIZE
       THEN SyntaxErr("const_too_wide", l, "")
       ELSE Return(c)

\* int(addr, 16): optional sign, optional 0x or 0X, one or more hex digits
RECURSIVE HexValue(_, _)
HexValue(ds, acc) ==
    IF ds = <<>> THEN acc ELSE HexValue(Tail(ds), acc * 16 + HexVal(ds[1]))
int16(addr) ==
    LET signed == Len(addr) > 0 /\ addr[1] \in {"-", "+"}
        s1 == IF signed THEN Tail(addr) ELSE addr
        prefixed == Len(s1) >= 2 /\ s1[1] = "0" /\ s1[2] \in {"x", "X"}
        s2 == IF prefixed THEN SubSeq(s1, 3, Len(s1)) ELSE s1
    IN IF s2 = <<>> \/ \E k \in 1..Len(s2) : ~IsHexDigit(s2[k])
       THEN [ok |-> FALSE, v |-> 0]
       ELSE [ok |-> TRUE,
             v |-> IF signed /\ addr[1] = "-" THEN 0 - HexValue(s2, 0) ELSE HexValue(s2, 0)]

\* a faulty fmt_mem: the address 2^MEM_ADDR_BITS itself is let through
fmt_mem_Inclusive(addr) ==
    LET p == int16(addr)
        a == 2 ^ MEM_ADDR_BITS
    IN IF ~p.ok THEN ValueErr
       ELSE IF p.v > a THEN SyntaxErr("addr_out_of_range", p.v, "")
       ELSE Return(format_b(p.v, MEM_ADDR_BITS))

fmt_mem(addr) ==
    LET p == int16(addr)
        a == 2 ^ MEM_ADDR_BITS
    IN IF ~p.ok THEN ValueErr
       ELSE IF p.v >= a THEN SyntaxErr("addr_out_of_range", p.v, "")
       ELSE Return(format_b(p.v, MEM_ADDR_BITS))

fmt_reg(register) == format_b(register_reference[register], 3)

check_args(instr, args, required) ==
    LET l == Len(args)
    IN IF l # required
       THEN SyntaxErr("arity_" \o instr, l, tense(l))
       ELSE Return(<<>>)

(* ---------------- word packer ---------------- *)
\* a faulty packer: the continuation word takes the first extra_bits bits of
\* the second field instead of the last
assemble_instruction_HeadRemainder(opcode, first_param, second_param) ==
    LET extra_bits == Len(opcode) + Len(first_param) + Len(second_param) - WORD_SIZE - 2
        padded_bits == WORD_SIZE - Len(opcode) - extra_bits + 2
        remainder == Zeros(padded_bits) \o SubSeq(second_param, 1, extra_bits)
    IN IF extra_bits > 0
       THEN multiline_opcode \o first_param \o SliceButLast(second_param, extra_bits)
            \o <<"\n">> \o opcode \o remainder
       ELSE IF extra_bits < 0
       THEN opcode \o first_param \o Zeros(0 - extra_bits) \o second_param
       ELSE opcode \o first_param \o second_param

\* a faulty packer: the two characters of the opcode's prefix are not allowed
\* for when the budget is computed
assemble_instruction_NoPrefix(opcode, first_param, second_param) ==
    LET extra_bits == Len(opcode) + Len(first_param) + Len(second_param) - WORD_SIZE
        padded_bits == WORD_SIZE - Len(opcode) - extra_bits
        remainder == Zeros(padded_bits) \o SliceLast(second_param, extra_bits)
    IN IF extra_bits > 0
       THEN multiline_opcode \o first_param \o SliceButLast(second_param, extra_bits)
            \o <<"\n">> \o opcode \o remainder
       ELSE IF extra_bits < 0
       THEN opcode \o first_param \o Zeros(0 - extra_bits) \o second_param
       ELSE opcode \o first_param \o second_param

assemble_instruction(opcode, first_param, second_param) ==
    LET extra_bits == Len(opcode) + Len(first_param) + Len(second_param) - WORD_SIZE - 2
        padded_bits == WORD_SIZE - Len(opcode) - extra_bits + 2
        remainder == Zeros(padded_bits) \o SliceLast(second_param, extra_bits)
    IN IF extra_bits > 0
       THEN multiline_opcode \o first_param \o SliceButLast(second_param, extra_bits)
            \o <<"\n">> \o opcode \o remainder
       ELSE IF extra_bits < 0
       THEN opcode \o first_param \o Zeros(0 - extra_bits) \o second_param
       ELSE opcode \o first_param \o second_param

\* assemble_instruction(opcode, f, s) where f and s are the results of the
\* argument expressions, evaluated left to right; the first exception wins
Assemble(opcode, f, s) ==
    IF f.t = "raise" THEN f
    ELSE IF s.t = "raise" THEN s
    ELSE Return(assemble_instruction(opcode, f.code, s.code))

(* ---------------- instruction selector ---------------- *)
is_register(tok) == upper(tok) \in DOMAIN register_reference

add(args) ==
    LET chk == check_args("add", args, 2)
    IN IF chk.t = "raise" THEN chk
       ELSE IF is_register(args[1])
       THEN (IF isnumeric(args[2])
             THEN Assemble(add_reg_const, Return(fmt_reg(upper(args[1]))), fmt_const(args[2]))
             ELSE IF contains_x(args[2])
             THEN Assemble(add_reg_mem, Return(fmt_reg(upper(args[1]))), fmt_mem(args[2]))
             ELSE SyntaxErr("add_reg_second", 0, ""))
       ELSE IF contains_x(args[1])
       THEN (IF is_register(args[2])
             THEN Assemble(add_mem_reg, fmt_mem(args[1]), Return(fmt_reg(upper(args[2]))))
             ELSE SyntaxErr("add_mem_second", 0, ""))
       ELSE SyntaxErr("add_first", 0, "")

move(args) ==
    LET chk == check_args("move", args, 2)
    IN IF chk.t = "raise" THEN chk
       ELSE IF is_register(args[1])
       THEN (IF isnumeric(args[2])
             THEN Assemble(move_reg_const, Return(fmt_reg(upper(args[1]))), fmt_const(args[2]))
             ELSE IF contains_x(args[2])
             THEN Assemble(move_reg_mem, Return(fmt_reg(upper(args[1]))), fmt_mem(args[2]))
             ELSE SyntaxErr("move_reg_second", 0, ""))
       ELSE IF contains_x(args[1])
       THEN (IF isnumeric(args[2])
             THEN Assemble(move_mem_const, fmt_mem(args[1]), fmt_const(args[2]))
             ELSE IF contains_x(args[2])
             THEN Assemble(move_mem_mem, fmt_mem(args[1]), fmt_mem(args[2]))
             ELSE IF is_register(args[2])
             THEN Assemble(move_mem_reg, fmt_mem(args[1]), Return(fmt_reg(upper(args[2]))))
             ELSE SyntaxErr("move_mem_second", 0, ""))
       ELSE SyntaxErr("move_first", 0, "")

MnemonicAdd == <<"a", "d", "d">>
MnemonicMov == <<"m", "o", "v">>
instruction_reference == {MnemonicAdd, MnemonicMov}
CallInstruction(mnemonic, args) ==
    IF mnemonic = MnemonicAdd THEN add(args) ELSE move(args)

(* ---------------- line processor (driver) ---------------- *)
\* source        the lines of the source file
\* i             the loop index: the 0-based index of the line the loop is at,
\*               which is also the number of lines encoded so far
\* program_code  the output buffer, one entry per encoded line
\* stdout        what has been printed, one record per message
\* output_file   whether the output file has been written, and its text
\* status        "running", "exited" (exit() after a printed error), "crashed"
\*               (an exception nothing catches) or "done"
\* traceback     the type of the uncaught exception, if any
VARIABLES source, i, program_code, stdout, output_file, status, traceback
vars == <<source, i, program_code, stdout, output_file, status, traceback>>

Whitespace == {" ", "\t"}

\* line.replace(",", "")
RECURSIVE RemoveCommas(_)
RemoveCommas(line) ==
    IF line = <<>> THEN <<>>
    ELSE IF line[1] = "," THEN RemoveCommas(Tail(line))
    ELSE <<line[1]>> \o RemoveCommas(Tail(line))

\* str.split(): the maximal runs of non-whitespace characters
RECURSIVE SplitRec(_, _)
SplitRec(rest, cur) ==
    IF rest = <<>> THEN (IF cur = <<>> THEN <<>> ELSE <<cur>>)
    ELSE IF rest[1] \in Whitespace
    THEN (IF cur = <<>> THEN <<>> ELSE <<cur>>) \o SplitRec(Tail(rest), <<>>)
    ELSE SplitRec(Tail(rest), Append(cur, rest[1]))
split(line) == SplitRec(line, <<>>)

Tokenize(line) == split(RemoveCommas(line))

\* file.writelines(program_code): the entries, one after the other
RECURSIVE Concat(_)
Concat(entries) ==
    IF entries = <<>> THEN <<>> ELSE entries[1] \o Concat(Tail(entries))

\* a faulty message: the loop index is printed without the + 1
ErrorOnLine_ZeroBased(index, kind, tok, n, tns) ==
    [line |-> index, kind |-> kind, tok |-> tok, n |-> n, tense |-> tns]
\* f"Error on line {i + 1}: ...", as the record of what it says
ErrorOnLine(index, kind, tok, n, tns) ==
    [line |-> index + 1, kind |-> kind, tok |-> tok, n |-> n, tense |-> tns]
\* the closing message
SuccessMessage == [line |-> 0, kind |-> "success", tok |-> <<>>, n |-> 0, tense |-> ""]

\* a faulty append: the new entry is put in front of the buffer
AppendCode_Prepend(buffer, code) == <<code \o <<"\n">>>> \o buffer

\* program_code.append(code + "\n")
AppendCode(buffer, code) == Append(buffer, code \o <<"\n">>)

\* one iteration of the loop over the source lines
ProcessLine ==
    /\ status = "running"
    /\ i < Len(source)
    /\ LET tokens == Tokenize(source[i + 1])
       IN IF tokens = <<>>
          THEN \* tokens[0] raises IndexError, which nothing catches
               /\ status' = "crashed"
               /\ traceback' = "IndexError"
               /\ UNCHANGED <<i, program_code, stdout>>
          ELSE IF tokens[1] \notin instruction_reference
          THEN /\ stdout' = Append(stdout, ErrorOnLine(i, "not_instruction", tokens[1], 0, ""))
               /\ status' = "exited"
               /\ UNCHANGED <<i, program_code, traceback>>
          ELSE LET r == CallInstruction(tokens[1], Tail(tokens))
               IN IF r.t = "ret"
                  THEN /\ program_code' = AppendCode(program_code, r.code)
                       /\ i' = i + 1
                       /\ UNCHANGED <<stdout, status, traceback>>
                  ELSE IF r.exc = "SyntaxError"
                  THEN /\ stdout' = Append(stdout,
                                       ErrorOnLine(i, r.msg.kind, <<>>, r.msg.n, r.msg.tense))
                       /\ status' = "exited"
                       /\ UNCHANGED <<i, program_code, traceback>>
                  ELSE \* any other exception passes the except clause
                       /\ status' = "crashed"
                       /\ traceback' = r.exc
                       /\ UNCHANGED <<i, program_code, stdout>>
    /\ UNCHANGED <<source, output_file>>

\* after the loop: write the buffer and report success
WriteOutput ==
    /\ status = "running"
    /\ i = Len(source)
    /\ output_file' = [written |-> TRUE, text |-> Concat(program_code)]
    /\ stdout' = Append(stdout, SuccessMessage)
    /\ status' = "done"
    /\ UNCHANGED <<source, i, program_code, traceback>>

Next == ProcessLine \/ WriteOutput

\* the state once the source file has been read into its lines
InitWith(lines) ==
    /\ source = lines
    /\ i = 0
    /\ program_code = <<>>
    /\ stdout = <<>>
    /\ output_file = [written |-> FALSE, text |-> <<>>]
    /\ status = "running"
    /\ traceback = ""

(* ---------------- the explored sources ---------------- *)
\* the decimal numeral of a bit pattern, by doubling (builds the constant tokens)
RECURSIVE DoubleDigits(_, _)
DoubleDigits(ds, carry) ==
    IF ds = <<>> THEN (IF carry = 0 THEN <<>> ELSE <<DecDigits[carry + 1]>>)
    ELSE LET cur == 2 * DecVal(ds[Len(ds)]) + carry
         IN DoubleDigits(SubSeq(ds, 1, Len(ds) - 1), cur \div 10)
            \o <<DecDigits[(cur % 10) + 1]>>
RECURSIVE DecOfBitsFrom(_, _)
DecOfBitsFrom(bits, acc) ==
    IF bits = <<>> THEN acc
    ELSE LET nxt == StripZeros(DoubleDigits(acc, DecVal(bits[1])))
         IN IF Len(nxt) > 0 THEN DecOfBitsFrom(Tail(bits), nxt) ELSE nxt
DecOfBits(bits) == DecOfBitsFrom(bits, <<"0">>)

\* minimal bit patterns of every width: 100..0, 111..1, 1010.., and zero
ConstBitPatterns ==
    {<<"0">>} \cup
    UNION {{[k \in 1..w |-> IF k = 1 THEN "1" ELSE "0"],
            [k \in 1..w |-> "1"],
            [k \in 1..w |-> IF k % 2 = 1 THEN "1" ELSE "0"]} : w \in 1..MaxConstBits}
GeneratedConsts == {[tok |-> DecOfBits(b), bits |-> b] : b \in ConstBitPatterns}

TokAC == <<"A", "C">>
TokLowerIR == <<"i", "r">>
TokFive == <<"5">>
TokSeven == <<"0", "0", "7">>
TokMemZero == <<"0", "x", "0">>
TokMemLower == <<"0", "x", "2", "a", "5">>
TokMemMax == <<"0", "x", "3", "F", "F">>
TokMemOver == <<"0", "x", "4", "0", "0">>
TokMemFar == <<"0", "x", "f", "f", "f", "f">>
TokMemNeg == <<"-", "0", "x", "1">>
TokBadHex == <<"x", "y", "z">>
TokWord == <<"f", "o", "o">>
TokMaxConst == <<"4", "2", "9", "4", "9", "6", "7", "2", "9", "5">>
TokWideConst == <<"4", "2", "9", "4", "9", "6", "7", "2", "9", "6">>
\* the constants, each token with the minimal binary form of its value
ConstCorpus == GeneratedConsts \cup {[tok |-> TokSeven, bits |-> <<"1", "1", "1">>]}
ConstTokens == {c.tok : c \in ConstCorpus}
MnemonicUnknown == <<"m", "o", "v", "x">>

\* addresses as the hexadecimal tokens of a few in-range and out-of-range values
MemCorpus == {[tok |-> TokMemZero, v |-> 0], [tok |-> TokMemLower, v |-> 677],
              [tok |-> TokMemMax, v |-> 1023], [tok |-> TokMemOver, v |-> 1024],
              [tok |-> TokMemFar, v |-> 65535], [tok |-> TokMemNeg, v |-> 0 - 1]}
MemTokens == {m.tok : m \in MemCorpus}
RegTokens == Range(RegisterNames) \cup {TokLowerIR}

\* a line of source text: the mnemonic, then the operands, separated by sep
RECURSIVE JoinArgs(_, _)
JoinArgs(args, sep) ==
    IF args = <<>> THEN <<>>
    ELSE IF Len(args) = 1 THEN args[1]
    ELSE args[1] \o sep \o JoinArgs(Tail(args), sep)
JoinLine(mnemonic, args, sep) ==
    IF args = <<>> THEN mnemonic ELSE mnemonic \o <<" ">> \o JoinArgs(args, sep)
CommaSpace == <<",", " ">>

\* driver specification: short programs over a few lines of every outcome
Lines ==
    { JoinLine(MnemonicAdd, <<TokAC, TokFive>>, CommaSpace),
      JoinLine(MnemonicMov, <<TokMemMax, TokMaxConst>>, CommaSpace),
      JoinLine(MnemonicMov, <<TokLowerIR, TokMemLower>>, <<" ">>),
      JoinLine(MnemonicUnknown, <<TokFive>>, CommaSpace),
      JoinLine(MnemonicAdd, <<TokAC>>, CommaSpace),
      JoinLine(MnemonicAdd, <<TokAC, TokFive>>, <<",">>),
      JoinLine(MnemonicMov, <<TokAC, TokMemOver>>, CommaSpace),
      JoinLine(MnemonicMov, <<TokAC, TokLowerIR>>, CommaSpace),
      JoinLine(MnemonicMov, <<TokAC, TokBadHex>>, CommaSpace),
      <<>> }
SeqsUpTo(S, n) == UNION {[1..k -> S] : k \in 1..n}
Sources == SeqsUpTo(Lines, MaxLines)

\* encoder specification: one-line programs over many operand lists
SmallTokens == {TokAC, TokLowerIR, TokFive, TokMemMax, TokMemOver, TokMemNeg,
                TokBadHex, TokWord}
ArgLists ==
    {<<>>} \cup SeqsUpTo(SmallTokens, MaxArgs)
    \cup {<<f, s>> : f \in RegTokens \cup MemTokens,
                     s \in ConstTokens \cup MemTokens \cup RegTokens}
\* pair specification: two-line programs of instructions with a constant
PairLines == {JoinLine(mf[1], <<mf[2], DecOfBits(b)>>, CommaSpace) :
                 mf \in {<<MnemonicAdd, TokAC>>, <<MnemonicMov, TokAC>>,
                         <<MnemonicMov, TokMemMax>>},
                 b \in {p \in ConstBitPatterns : p[Len(p)] = "0"}}

Init == \E src \in Sources : InitWith(src)
InitEnc == \E m \in instruction_reference, args \in ArgLists :
              InitWith(<<JoinLine(m, args, CommaSpace)>>)
InitPair == \E l1 \in PairLines, l2 \in PairLines : InitWith(<<l1, l2>>)

Spec == Init /\ [][Next]_vars
SpecEnc == InitEnc /\ [][Next]_vars
SpecPair == InitPair /\ [][Next]_vars

(* ---------------- vocabulary of the properties ---------------- *)
\* the words of a buffer entry: its text split at the newlines that end them
RECURSIVE WordsRec(_, _)
WordsRec(rest, cur) ==
    IF rest = <<>> THEN (IF cur = <<>> THEN <<>> ELSE <<cur>>)
    ELSE IF rest[1] = "\n" THEN <<cur>> \o WordsRec(Tail(rest), <<>>)
    ELSE WordsRec(Tail(rest), Append(cur, rest[1]))
Words(entry) == WordsRec(entry, <<>>)

Toks(k) == Tokenize(source[k])
Ended == status # "running"

\* what a line does when it is processed on its own
LineResult(line) ==
    LET t == Tokenize(line)
    IN IF t = <<>> THEN Raise("IndexError", NoMsg)
       ELSE IF t[1] \notin instruction_reference THEN Raise("NotInstruction", NoMsg)
       ELSE CallInstruction(t[1], Tail(t))
LineEncodes(line) == LineResult(line).t = "ret"
LineRejected(line) == LineResult(line).exc \in {"NotInstruction", "SyntaxError"}
FirstRejected(k) ==
    /\ k \in 1..Len(source)
    /\ LineRejected(source[k])
    /\ \A j \in 1..(k - 1) : LineEncodes(source[j])

(* ---------------- C1 ---------------- *)
\* C1: fail-fast with no partial output.  If line k is the first rejected line
\* (unknown mnemonic or an encoding error) and the lines before it encode, then
\* the loop never moves past line k, the output file is never written, nothing
\* is printed while lines 1..k-1 are processed, and the run ends with exactly
\* one diagnostic, carrying line number k, with k-1 entries in the buffer.
C1_FailFast ==
    \A k \in 1..Len(source) :
        FirstRejected(k) =>
            /\ i <= k - 1
            /\ ~output_file.written
            /\ status \in {"running", "exited"}
            /\ status = "running" => stdout = <<>>
            /\ status = "exited" =>
                   /\ Len(stdout) = 1
                   /\ stdout[1].line = k
                   /\ stdout[1].kind # "success"
                   /\ i = k - 1
                   /\ Len(program_code) = k - 1

\* a run that stopped at a rejected line after encoding at least one line
C1_Witness ==
    \E k \in 2..Len(source) :
        /\ FirstRejected(k)
        /\ status = "exited"
        /\ Len(program_code) = k - 1
        /\ ~output_file.written

(* ---------------- C2 ---------------- *)
\* C2: every error is caught at line granularity.  A run that stops without
\* writing the output stops with one printed diagnostic that carries the
\* 1-based number of the line it stopped at; it never ends in a third way.
C2_EveryErrorCaught ==
    Ended =>
        \/ status = "done"
        \/ /\ status = "exited"
           /\ Len(stdout) = 1
           /\ stdout[1].line = i + 1

(* ---------------- C10 ---------------- *)
\* C10: output order.  The buffer holds one entry per line processed so far,
\* entry j being the encoding of source line j alone followed by a newline;
\* the file, once written, is the n entries in source order; and a step only
\* ever appends to the buffer.
EncodingOf(line) == LineResult(line).code \o <<"\n">>
C10_BufferInOrder ==
    /\ Len(program_code) = i
    /\ \A j \in 1..Len(program_code) :
           /\ LineEncodes(source[j])
           /\ program_code[j] = EncodingOf(source[j])
    /\ output_file.written =>
           /\ Len(program_code) = Len(source)
           /\ output_file.text = Concat([j \in 1..Len(source) |-> EncodingOf(source[j])])
C10_AppendOnly ==
    [][\/ program_code' = program_code
       \/ /\ Len(program_code') = Len(program_code) + 1
          /\ SubSeq(program_code', 1, Len(program_code)) = program_code]_vars
C10_OutputOrder == []C10_BufferInOrder /\ C10_AppendOnly

\* a written file of two different instructions, one of them of two words
C10_Witness ==
    /\ output_file.written
    /\ Len(source) >= 2
    /\ program_code[1] # program_code[2]
    /\ \E j \in 1..Len(source) : Len(Words(program_code[j])) = 2

(* ---------------- vocabulary of the encoder properties ---------------- *)
Kind(tok) ==
    IF is_register(tok) THEN "reg"
    ELSE IF isnumeric(tok) THEN "const"
    ELSE IF contains_x(tok) THEN "mem"
    ELSE "other"

\* the opcode table of the instruction set, without the 0b prefix
OpcodeTable ==
    { [m |-> MnemonicAdd, k1 |-> "reg", k2 |-> "const", op |-> <<"0", "0", "0", "1", "0", "1">>],
      [m |-> MnemonicAdd, k1 |-> "reg", k2 |-> "mem", op |-> <<"0", "0", "0", "1", "1", "0">>],
      [m |-> MnemonicAdd, k1 |-> "mem", k2 |-> "reg", op |-> <<"0", "0", "0", "1", "1", "1">>],
      [m |-> MnemonicMov, k1 |-> "reg", k2 |-> "const", op |-> <<"0", "0", "0", "0", "0", "0">>],
      [m |-> MnemonicMov, k1 |-> "reg", k2 |-> "mem", op |-> <<"0", "0", "0", "0", "0", "1">>],
      [m |-> MnemonicMov, k1 |-> "mem", k2 |-> "const", op |-> <<"0", "0", "0", "0", "1", "0">>],
      [m |-> MnemonicMov, k1 |-> "mem", k2 |-> "mem", op |-> <<"0", "0", "0", "0", "1", "1">>],
      [m |-> MnemonicMov, k1 |-> "mem", k2 |-> "reg", op |-> <<"0", "0", "0", "1", "0", "0">>] }
Rows(t) == {r \in OpcodeTable : r.m = t[1] /\ r.k1 = Kind(t[2]) /\ r.k2 = Kind(t[3])}
Sentinel == <<"1", "1", "1", "1", "1", "1">>
Prefix == <<"0", "b">>
PrefixLen == Len(Prefix)
OpcodeLen == Len(Sentinel)
\* where the first operand field starts in a word
FieldStart == PrefixLen + OpcodeLen + 1
WordLen == PrefixLen + WORD_SIZE

IsBinary(bits) == \A k \in 1..Len(bits) : bits[k] \in {"0", "1"}
AllZero(bits) == \A k \in 1..Len(bits) : bits[k] = "0"
RECURSIVE BitsValue(_)
BitsValue(bits) ==
    IF bits = <<>> THEN 0
    ELSE 2 * BitsValue(SubSeq(bits, 1, Len(bits) - 1)) + (IF bits[Len(bits)] = "1" THEN 1 ELSE 0)

\* the field an operand token is encoded to
Field(tok) ==
    IF Kind(tok) = "reg" THEN fmt_reg(upper(tok))
    ELSE IF Kind(tok) = "const" THEN fmt_const(tok).code
    ELSE fmt_mem(tok).code
AddrInRange(tok) == int16(tok).ok /\ int16(tok).v \in 0..(2 ^ MEM_ADDR_BITS - 1)
OperandInRange(tok) == Kind(tok) = "mem" => AddrInRange(tok)
\* a first operand that the selector accepts before a constant or an address
FirstAccepted(t) ==
    \/ Kind(t[2]) = "reg"
    \/ t[1] = MnemonicMov /\ Kind(t[2]) = "mem" /\ int16(t[2]).ok
       /\ int16(t[2]).v < 2 ^ MEM_ADDR_BITS

\* the one-line program's instruction has been emitted
Emitted == Len(source) = 1 /\ Len(program_code) = 1
EmittedWords == Words(program_code[1])
NothingEmitted == program_code = <<>> /\ ~output_file.written
RejectedWith(kinds) ==
    /\ status \in {"running", "exited"}
    /\ status = "running" => stdout = <<>>
    /\ status = "exited" => Len(stdout) = 1 /\ stdout[1].line = 1 /\ stdout[1].kind \in kinds
NoError == status \in {"running", "done"} /\ \A k \in 1..Len(stdout) : stdout[k].kind = "success"

\* the second field as a decoder that knows both field widths reads it back
SecondFieldRead(w, firstLen, secondLen) ==
    LET extra == PrefixLen + OpcodeLen + firstLen + secondLen - WORD_SIZE - 2
    IN IF extra > 0
       THEN SubSeq(w[1], FieldStart + firstLen, Len(w[1]))
            \o SubSeq(w[2], Len(w[2]) - extra + 1, Len(w[2]))
       ELSE SubSeq(w[1], Len(w[1]) - secondLen + 1, Len(w[1]))

(* ---------------- C3 ---------------- *)
\* C3: round trip.  Two instructions that differ in opcode, first value or
\* second value never produce the same emitted output.
TripleOf(line) ==
    LET t == Tokenize(line)
    IN <<(CHOOSE r \in Rows(t) : TRUE).op, Kind(t[2]), upper(t[2]), int_dec(t[3])>>
C3_RoundTrip ==
    (Len(program_code) = 2 /\ program_code[1] = program_code[2])
        => TripleOf(source[1]) = TripleOf(source[2])

(* ---------------- C4 ---------------- *)
\* C4: overflow packing.  When extra_bits > 0 exactly two words are emitted;
\* the first is the sentinel opcode, the first field and the high-order
\* len(second) - extra_bits bits of the second field; the second is the
\* original opcode, zero padding and the low-order extra_bits bits; the
\* second-field part of word 1 followed by the last extra_bits bits of word 2
\* is the second field.
C4_OverflowPacking ==
    Emitted =>
        LET t == Toks(1)
            f == Field(t[2])
            sec == Field(t[3])
            op == (CHOOSE r \in Rows(t) : TRUE).op
            extra == PrefixLen + OpcodeLen + Len(f) + Len(sec) - WORD_SIZE - 2
            w == EmittedWords
        IN extra > 0 =>
               /\ Len(w) = 2
               /\ w[1] = Prefix \o Sentinel \o f \o SubSeq(sec, 1, Len(sec) - extra)
               /\ Len(w[2]) = WordLen
               /\ SubSeq(w[2], 1, FieldStart - 1) = Prefix \o op
               /\ AllZero(SubSeq(w[2], FieldStart, WordLen - extra))
               /\ SubSeq(w[2], WordLen - extra + 1, WordLen)
                      = SubSeq(sec, Len(sec) - extra + 1, Len(sec))
               /\ SubSeq(w[1], FieldStart + Len(f), Len(w[1]))
                      \o SubSeq(w[2], WordLen - extra + 1, WordLen) = sec

\* an emitted instruction whose second field spills five bits
C4_Witness ==
    /\ Emitted
    /\ Len(EmittedWords) = 2
    /\ Len(Field(Toks(1)[2])) + Len(Field(Toks(1)[3])) = WORD_SIZE + 2 - PrefixLen - OpcodeLen + 5

(* ---------------- C5 ---------------- *)
\* C5: fixed word width.  Every word emitted for an instruction with in-range
\* operands, the continuation word included, is the 2-character prefix
\* followed by exactly WORD_SIZE binary digits.
C5_FixedWordWidth ==
    (Emitted /\ \A k \in 2..Len(Toks(1)) : OperandInRange(Toks(1)[k])) =>
        /\ Len(EmittedWords) \in {1, 2}
        /\ \A k \in 1..Len(EmittedWords) :
               /\ Len(EmittedWords[k]) = PrefixLen + WORD_SIZE
               /\ SubSeq(EmittedWords[k], 1, PrefixLen) = Prefix
               /\ IsBinary(SubSeq(EmittedWords[k], PrefixLen + 1, Len(EmittedWords[k])))

\* an under-full word with more than one padding bit has been emitted
C5_Witness ==
    /\ Emitted
    /\ Len(EmittedWords) = 1
    /\ Len(Field(Toks(1)[2])) + Len(Field(Toks(1)[3])) < WORD_SIZE - OpcodeLen - 1
    /\ \A k \in 2..Len(Toks(1)) : OperandInRange(Toks(1)[k])

(* ---------------- C6 ---------------- *)
\* C6: opcode selection.  For a pairing of the table the emitted opcode is the
\* table's (in the continuation word when there is one, the first word then
\* carrying the sentinel), the first operand's field follows the opcode and
\* the second operand's field comes last; any other pairing is rejected with
\* an operand error and emits no word.
ComboErrors == {"add_reg_second", "add_mem_second", "add_first",
                "move_reg_second", "move_mem_second", "move_first"}
C6_OpcodeSelection ==
    (Len(source) = 1 /\ Len(Toks(1)) = 3) =>
        LET t == Toks(1)
        IN IF Rows(t) # {}
           THEN Emitted =>
                    LET w == EmittedWords
                        op == (CHOOSE r \in Rows(t) : TRUE).op
                        f == Field(t[2])
                    IN /\ SubSeq(w[Len(w)], PrefixLen + 1, FieldStart - 1) = op
                       /\ Len(w) = 2 => SubSeq(w[1], PrefixLen + 1, FieldStart - 1) = Sentinel
                       /\ SubSeq(w[1], FieldStart, FieldStart + Len(f) - 1) = f
                       /\ SecondFieldRead(w, Len(f), Len(Field(t[3]))) = Field(t[3])
           ELSE NothingEmitted /\ RejectedWith(ComboErrors)

\* the program "mov AC, 0x3FF" has been assembled to its one word
C6_Witness ==
    /\ source = <<JoinLine(MnemonicMov, <<TokAC, TokMemMax>>, CommaSpace)>>
    /\ Emitted
    /\ EmittedWords = << Prefix \o <<"0", "0", "0", "0", "0", "1">> \o <<"0", "0", "0">>
                         \o [k \in 1..13 |-> "0"] \o [k \in 1..10 |-> "1"] >>

(* ---------------- C7 ---------------- *)
\* C7: constant range.  Behind an accepted first operand, a constant is
\* rejected with the constant-too-wide error exactly when the minimal binary
\* form of its value has more than WORD_SIZE digits; a narrower one raises no
\* error and the instruction is emitted with that minimal form as its second
\* field, the bits of the word before it being zero padding.
C7_ConstantRange ==
    (Len(source) = 1 /\ Len(Toks(1)) = 3 /\ FirstAccepted(Toks(1))) =>
        \A c \in ConstCorpus :
            Toks(1)[3] = c.tok =>
                IF Len(c.bits) > WORD_SIZE
                THEN /\ NothingEmitted
                     /\ RejectedWith({"const_too_wide"})
                     /\ status = "exited" => stdout[1].n = Len(c.bits)
                ELSE /\ NoError
                     /\ i = 1 => Emitted
                     /\ Emitted =>
                            LET w == EmittedWords
                                fl == Len(Field(Toks(1)[2]))
                            IN /\ SecondFieldRead(w, fl, Len(c.bits)) = c.bits
                               /\ Len(w) = 1 =>
                                      AllZero(SubSeq(w[1], FieldStart + fl,
                                                     Len(w[1]) - Len(c.bits)))

\* a constant of exactly WORD_SIZE bits has been emitted
C7_Witness ==
    /\ Emitted
    /\ Len(Toks(1)) = 3
    /\ \E c \in ConstCorpus : Toks(1)[3] = c.tok /\ Len(c.bits) = WORD_SIZE
    /\ status = "done"

(* ---------------- C8 ---------------- *)
\* C8: memory address range.  An address operand of a valid pairing is
\* rejected with the address-out-of-range error exactly when its value is at
\* least 2^MEM_ADDR_BITS; a value 0..2^MEM_ADDR_BITS - 1 is accepted and
\* encoded as a field of exactly MEM_ADDR_BITS binary digits of that value,
\* as the first operand and as the second.
AddrError(v) == status = "exited" /\ stdout[1].kind = "addr_out_of_range" /\ stdout[1].n = v
AddrField(bits, v) == Len(bits) = MEM_ADDR_BITS /\ IsBinary(bits) /\ BitsValue(bits) = v
C8_AddressRange ==
    (Len(source) = 1 /\ Len(Toks(1)) = 3 /\ Rows(Toks(1)) # {}) =>
        \A m \in MemCorpus :
            LET t == Toks(1)
                w == EmittedWords
            IN /\ t[2] = m.tok =>
                      IF m.v >= 2 ^ MEM_ADDR_BITS
                      THEN NothingEmitted /\ RejectedWith({"addr_out_of_range"})
                           /\ (Ended => AddrError(m.v))
                      ELSE /\ ~AddrError(m.v)
                           /\ (Emitted /\ m.v >= 0) =>
                                  AddrField(SubSeq(w[1], FieldStart,
                                                   FieldStart + MEM_ADDR_BITS - 1), m.v)
               /\ (t[3] = m.tok /\ FirstAccepted(t)) =>
                      IF m.v >= 2 ^ MEM_ADDR_BITS
                      THEN NothingEmitted /\ RejectedWith({"addr_out_of_range"})
                           /\ (Ended => AddrError(m.v))
                      ELSE /\ NoError
                           /\ i = 1 => Emitted
                           /\ (Emitted /\ m.v >= 0) =>
                                  /\ Len(w) = 1
                                  /\ AddrField(SubSeq(w[1], Len(w[1]) - MEM_ADDR_BITS + 1,
                                                      Len(w[1])), m.v)

\* the largest address has been emitted as a first and as a second operand
C8_Witness ==
    /\ Emitted
    /\ Toks(1) = <<MnemonicMov, TokMemMax, TokMemMax>>
    /\ status = "done"

(* ---------------- C9 ---------------- *)
\* C9: arity.  A line of add or mov with n operands, n other than 2, emits no
\* word and is rejected with the arity error, whatever the operands are; the
\* error reports n, with "was" exactly when n = 1 and "were" otherwise.
C9_Arity ==
    (Len(source) = 1 /\ Len(Toks(1)) >= 1 /\ Toks(1)[1] \in instruction_reference
     /\ Len(Toks(1)) - 1 # 2) =>
        /\ NothingEmitted
        /\ RejectedWith({"arity_add", "arity_move"})
        /\ status = "exited" =>
               /\ stdout[1].n = Len(Toks(1)) - 1
               /\ stdout[1].tense = (IF Len(Toks(1)) - 1 = 1 THEN "was" ELSE "were")

\* a line without operands has been rejected
C9_Witness ==
    /\ Len(source) = 1
    /\ Len(Toks(1)) = 1
    /\ status = "exited"
    /\ stdout[1].n = 0

====
